---- MODULE Spec2Model ----
(***************************************************************************)
(* The relay server of google-photos-picker-sync (server with download     *)
(* settings, and server-standalone.ts, which has the same orchestrator and *)
(* handlers): the two process-wide maps downloadProgress and downloadDirs, *)
(* the staging directories on disk, the background task processDownloads   *)
(* of every start request, and the four /api handlers.                     *)
(*                                                                         *)
(* The server is one JavaScript event loop: a handler, and a background    *)
(* task between two of its awaits, runs without interruption.  An action   *)
(* of this module is one such uninterrupted run.                           *)
(*                                                                         *)
(* Spec is the relay with any number of clients; UrlSpec is the locator    *)
(* derivation generateDownloadUrl on its own; ClientSpec is the relay with *)
(* one browser client (DownloadManager.tsx) and its timer callbacks.       *)
(* DirectSpec is server.ts, the variant that writes into the directory the *)
(* request names and passes over filenames already present there.          *)
(* TraversalSpec is the relay with file names that name directories;       *)
(* SelectorSpec is the component PhotoSelector with pollSession.           *)
(***************************************************************************)
EXTENDS Integers, Sequences, FiniteSets, TLC

\* ------------------------------------------------------------------ bounds
MaxStarts == 2   \* start requests with a parsable body in one process lifetime
MaxItems == 2    \* up to this length every mediaItems list is submitted
MaxTotal == 3    \* items of all start requests together
MaxCallbacks == 2 \* poll callbacks of the browser client running at the same time
MaxRuns == 2     \* runs of handleSelectPhotos in the lifetime of one PhotoSelector
MaxPolls == 2    \* poll intervals of pollSession that fit into its total timeout

\* ------------------------------------------------------------------ values
Tasks == 1..MaxStarts

\* A string the code treats as absent: undefined and "" are both falsy.
Missing == ""

Null == "null"

FileNames == {"a.jpg", "b.jpg"}

BaseUrls == {"https://lh3/x"}

\* The byte contents the remote service can answer with.
Payloads == {<<1>>, <<2, 2>>}

\* item.mediaFile of a submitted item: complete, without filename, without baseUrl
\* (an item is modelled by its mediaFile; an absent mediaFile reads as both missing).
MediaFiles ==
    [filename : FileNames, baseUrl : BaseUrls]
      \cup [filename : {Missing}, baseUrl : BaseUrls]
      \cup [filename : {"a.jpg"}, baseUrl : {Missing}]

RECURSIVE SeqsUpTo(_, _)
SeqsUpTo(S, n) ==
    IF n = 0 THEN {<<>>}
    ELSE LET shorter == SeqsUpTo(S, n - 1)
         IN  shorter \cup {Append(s, x) : s \in {q \in shorter : Len(q) = n - 1}, x \in S}

\* A longer list with every kind of item: complete, without filename, complete.
MixedBatch ==
    <<[filename |-> "a.jpg", baseUrl |-> "https://lh3/x"],
      [filename |-> Missing, baseUrl |-> "https://lh3/x"],
      [filename |-> "b.jpg", baseUrl |-> "https://lh3/x"]>>

ItemLists == SeqsUpTo(MediaFiles, MaxItems) \cup {MixedBatch}

\* The JSON bodies of a start request: the credential and the item list are
\* each present or absent.
Bodies ==
    [oauthToken : {"token"}, mediaItems : ItemLists]
      \cup [mediaItems : ItemLists]
      \cup [oauthToken : {"token"}]

Has(body, key) == key \in DOMAIN body

\* progressId = `download-${Date.now()}`: the identifier is the clock value.  The
\* clock is counted in the distinct values the start requests have read from it.
Ids == 1..MaxStarts

\* An identifier no start request is answered with: the clock never shows it.
NeverIssued == MaxStarts + 1

RequestIds == Ids \cup {NeverIssued}

\* The query of GET /api/progress: ?id=... or nothing.
ProgressQueries == [id : RequestIds] \cup [other : {"x"}]

\* The query of GET /api/file: both parameters, or one of them missing.
FileQueries ==
    [progressId : RequestIds, filename : FileNames]
      \cup [progressId : RequestIds] \cup [filename : FileNames]

\* What the remote service answers to one fetch: a body, or a non-ok status.
\* The bytes depend on the derived download URL and on the remote library, so
\* two fetches for the same filename need not bring the same bytes.
FetchResults == [ok : {TRUE}, bytes : Payloads] \cup [ok : {FALSE}, error : {"Error: HTTP 403"}]

\* ------------------------------------------------------- download locator
MediaTypes == {"PHOTO", "VIDEO"}

\* A MIME type as its two parts: type/subtype.
MimeTypes == {<<"image", "jpeg">>, <<"video", "mp4">>}

\* The values of imageMaxWidth and imageMaxHeight a request carries (a number the
\* code takes as set: 0 and undefined are both falsy and read as not set).
Widths == {800}

Heights == {600}

\* sessionData.downloadSettings: the interface's required fields, with or
\* without each of the two optional sizes.
SettingsCore ==
    [imageQuality : {"original", "high", "medium", "low"}, imageCrop : BOOLEAN,
     videoQuality : {"original", "high", "thumbnail"}, videoRemoveOverlay : BOOLEAN]

WithField(r, key, v) == [x \in DOMAIN r \cup {key} |-> IF x = key THEN v ELSE r[x]]

DownloadSettings ==
    SettingsCore
      \cup {WithField(c, "imageMaxWidth", w) : c \in SettingsCore, w \in Widths}
      \cup {WithField(c, "imageMaxHeight", h) : c \in SettingsCore, h \in Heights}
      \cup {WithField(WithField(c, "imageMaxWidth", w), "imageMaxHeight", h) :
              c \in SettingsCore, w \in Widths, h \in Heights}

\* settings === undefined
NoSettings == [undefined |-> TRUE]

\* mediaType === "VIDEO" || mimeType.startsWith("video/")
isVideo(mediaType, mimeType) == mediaType = "VIDEO" \/ mimeType[1] = "video"

\* Mutant: the overlay flag is not looked at.
VideoThumbnailParamsKeepOverlay(settings) == "w1280-h720"

\* let params = "w1280-h720"; if (settings.videoRemoveOverlay) params += "-no"
VideoThumbnailParams(settings) ==
    "w1280-h720" \o (IF settings.videoRemoveOverlay THEN "-no" ELSE "")

\* settings.imageMaxWidth && settings.imageMaxHeight
HasCustomSize(settings) == Has(settings, "imageMaxWidth") /\ Has(settings, "imageMaxHeight")

\* Mutant: the presets of medium and low are exchanged.
PresetSizeSwapped(imageQuality) ==
    CASE imageQuality = "high" -> 2048
      [] imageQuality = "medium" -> 512
      [] imageQuality = "low" -> 1024

\* switch (settings.imageQuality): the side of the preset square
PresetSize(imageQuality) ==
    CASE imageQuality = "high" -> 2048
      [] imageQuality = "medium" -> 1024
      [] imageQuality = "low" -> 512

\* The image branch below the test for "original".
ImageParams(settings) ==
    LET width == IF HasCustomSize(settings) THEN settings.imageMaxWidth
                 ELSE PresetSize(settings.imageQuality)
        height == IF HasCustomSize(settings) THEN settings.imageMaxHeight
                  ELSE PresetSize(settings.imageQuality)
    IN  "w" \o ToString(width) \o "-h" \o ToString(height)
          \o (IF settings.imageCrop THEN "-c" ELSE "")

generateDownloadUrl(baseUrl, mediaType, mimeType, settings) ==
    IF settings = NoSettings
    THEN baseUrl \o "=" \o (IF isVideo(mediaType, mimeType) THEN "dv" ELSE "d")
    ELSE IF isVideo(mediaType, mimeType)
    THEN IF settings.videoQuality = "thumbnail"
         THEN baseUrl \o "=" \o VideoThumbnailParams(settings)
         ELSE baseUrl \o "=dv"
    ELSE IF settings.imageQuality = "original" THEN baseUrl \o "=d"
    ELSE IF ~HasCustomSize(settings)
            /\ settings.imageQuality \notin {"high", "medium", "low"}
    THEN baseUrl \o "=d"
    ELSE baseUrl \o "=" \o ImageParams(settings)

\* The arguments of one call of generateDownloadUrl.
UrlCalls ==
    [baseUrl : BaseUrls, mediaType : MediaTypes, mimeType : MimeTypes,
     settings : DownloadSettings \cup {NoSettings}]

NoCall == [called |-> FALSE]

\* ------------------------------------------------------- browser client
Callbacks == 1..MaxCallbacks

\* A slot without a running pollProgressAndSave.
Idle == [pc |-> "idle"]

\* ------------------------------------------------------- photo selector
Runs == 1..MaxRuns

\* No run has opened the overlay.
NoRun == 0

NotStarted == [pc |-> "unborn", elapsed |-> 0]

VARIABLES
    now,              \* Date.now() as the last start request read it
    pc,               \* per task: where processDownloads stands
    progressId,       \* per task: the progressId argument
    mediaItems,       \* per task: sessionData.mediaItems
    i,                \* per task: the loop variable (1-based)
    progress,         \* per task: the local object `progress`
    outcome,          \* per task, per item: what happened to the item (history)
    cleanedUp,        \* the identifiers whose staging area a cleanup removed (history)
    downloadProgress, \* Map progressId -> stored record
    downloadDirs,     \* Map progressId -> temp directory
    dirs,             \* directories that exist on disk
    files,            \* files that exist on disk: path -> bytes
    resp,             \* the response to the start request, if that was the last step
    call,             \* the arguments of the last call of generateDownloadUrl
    locator,          \* what that call returned
    clientId,         \* DownloadManager: the state progressId
    isDownloading,    \* DownloadManager: the state isDownloading
    savedFiles,       \* DownloadManager: the state savedFiles
    callbacks,        \* DownloadManager: the runs of pollProgressAndSave
    existingFiles,    \* server.ts, per task: the Set existingFiles
    presentAtStart,   \* server.ts, per task: the names in the target directory
                      \* when the batch started (history)
    cancelledRef,     \* PhotoSelector: cancelledRef.current
    isSelecting,      \* PhotoSelector: the state isSelecting
    showOverlay,      \* PhotoSelector: the state showOverlay
    selection,        \* PhotoSelector, per run of handleSelectPhotos: where it stands
    overlayOf,        \* the run that opened the overlay last (history)
    cancelledRuns,    \* the runs the user cancelled (history)
    handed            \* the runs that called onPhotosSelected (history)

vars == <<now, pc, progressId, mediaItems, i, progress, outcome, cleanedUp,
          downloadProgress, downloadDirs, dirs, files, resp, call, locator,
          clientId, isDownloading, savedFiles, callbacks, existingFiles, presentAtStart,
          cancelledRef, isSelecting, showOverlay, selection, overlayOf, cancelledRuns,
          handed>>

\* The variables of the direct-to-directory server (server.ts) alone.
direct == <<existingFiles, presentAtStart>>

\* The variables of the component PhotoSelector alone.
selector == <<cancelledRef, isSelecting, showOverlay, selection, overlayOf, cancelledRuns,
              handed>>

\* The variables that are no state of the relay's maps, disk and tasks.
outside == <<call, locator, clientId, isDownloading, savedFiles, callbacks, direct,
             selector>>

\* ------------------------------------------------------------ file system
\* join(tmpdir(), `google-photos-sync-${progressId}`)
TempDirOf(id) == <<"tmp", id>>

\* File names with directory components, as a request can carry them in
\* mediaFile.filename and in ?filename=: "../1/a.jpg" stands for
\* `../google-photos-sync-${1}/a.jpg`, the file a.jpg in the staging directory
\* of progress id 1 as seen from the staging directory of any session.
TraversalNames == {"../1/a.jpg", "../2/a.jpg"}

\* A file name split at its separators: the number of its leading ".."
\* components and the components behind them.
Components(filename) ==
    CASE filename = "../1/a.jpg" -> [up |-> 1, down |-> <<1, "a.jpg">>]
      [] filename = "../2/a.jpg" -> [up |-> 1, down |-> <<2, "a.jpg">>]
      [] OTHER -> [up |-> 0, down |-> <<filename>>]

\* join(dir, filename) of "path": the two are concatenated and the result is
\* normalised, every leading ".." of the file name taking away one directory.
join(dir, filename) ==
    LET c == Components(filename)
        keep == IF Len(dir) > c.up THEN Len(dir) - c.up ELSE 0
    IN  SubSeq(dir, 1, keep) \o c.down

existsSync(path) == path \in dirs \/ path \in DOMAIN files

IsPrefix(p, q) == Len(p) <= Len(q) /\ SubSeq(q, 1, Len(p)) = p

\* writeFileSync(filepath, buffer): throws (ENOENT) when the directory is gone.
CanWrite(path) == SubSeq(path, 1, Len(path) - 1) \in dirs

WriteFile(fs, path, bytes) ==
    [p \in DOMAIN fs \cup {path} |-> IF p = path THEN bytes ELSE fs[p]]

\* rmSync(dir, {recursive: true, force: true})
RemoveTree(fs, dir) == [p \in {q \in DOMAIN fs : ~IsPrefix(dir, q)} |-> fs[p]]

\* ------------------------------------------------------------------- maps
MapSet(m, k, v) == [x \in DOMAIN m \cup {k} |-> IF x = k THEN v ELSE m[x]]

MapDelete(m, k) == [x \in DOMAIN m \ {k} |-> m[x]]

EmptyMap == [x \in {} |-> 0]

\* --------------------------------------------------------- progress record
InitialProgress(items) ==
    [total |-> Len(items), downloaded |-> 0, failed |-> 0, currentFile |-> Null,
     isComplete |-> FALSE, errors |-> <<>>, files |-> <<>>]

NoProgress == InitialProgress(<<>>)

\* !mediaFile?.filename || !mediaFile?.baseUrl
IsMissingData(mediaFile) == mediaFile.filename = Missing \/ mediaFile.baseUrl = Missing

\* Mutant: a missing-data item is counted and also ends the batch.
RecordMissingCompletes(p, k) ==
    [p EXCEPT !.failed = @ + 1, !.isComplete = TRUE,
              !.errors = Append(@, <<"Item", k, "Missing filename or baseUrl">>)]

\* Mutant: a missing-data item is also counted as downloaded.
RecordMissingAlsoDownloaded(p, k) ==
    [p EXCEPT !.failed = @ + 1, !.downloaded = @ + 1,
              !.errors = Append(@, <<"Item", k, "Missing filename or baseUrl">>)]

\* Mutant: a missing-data item is counted without a message.
RecordMissingSilent(p, k) == [p EXCEPT !.failed = @ + 1]

\* progress.failed++; progress.errors.push(`Item ${i + 1}: Missing filename or baseUrl`)
RecordMissing(p, k) ==
    [p EXCEPT !.failed = @ + 1,
              !.errors = Append(@, <<"Item", k, "Missing filename or baseUrl">>)]

\* Mutant: the new entry is put in front of the list (unshift for push).
RecordSuccessPrepends(p, filename, size) ==
    [p EXCEPT !.downloaded = @ + 1,
              !.files = <<[filename |-> filename, size |-> size, ready |-> TRUE]>> \o @]

\* progress.downloaded++; progress.files.push({filename, size, ready: true})
RecordSuccess(p, filename, size) ==
    [p EXCEPT !.downloaded = @ + 1,
              !.files = Append(@, [filename |-> filename, size |-> size, ready |-> TRUE])]

\* Mutant: the catch block records the message and forgets the counter.
RecordFailureUncounted(p, filename, error) ==
    [p EXCEPT !.errors = Append(@, <<filename, error>>)]

\* Mutant: the catch block puts its message in front of the list.
RecordFailurePrepends(p, filename, error) ==
    [p EXCEPT !.failed = @ + 1, !.errors = <<<<filename, error>>>> \o @]

\* catch (error): progress.failed++; progress.errors.push(`${filename}: ${error}`)
RecordFailure(p, filename, error) ==
    [p EXCEPT !.failed = @ + 1, !.errors = Append(@, <<filename, error>>)]

\* Mutant: the final step sets the flag and leaves currentFile as it was.
MarkCompleteKeepsCurrent(p) == [p EXCEPT !.isComplete = TRUE]

\* progress.isComplete = true; progress.currentFile = null
MarkComplete(p) == [p EXCEPT !.isComplete = TRUE, !.currentFile = Null]

\* { ...progress }: a new object with the scalar fields copied; errors and files
\* stay the arrays of the task's own object, named here by the task.
ShallowCopy(t, p) ==
    [owner |-> t, total |-> p.total, downloaded |-> p.downloaded,
     failed |-> p.failed, currentFile |-> p.currentFile, isComplete |-> p.isComplete]

\* What a reader of a stored record sees: the copied scalars and the two
\* arrays as the owning task's object holds them now.
Deref(e) ==
    [total |-> e.total, downloaded |-> e.downloaded, failed |-> e.failed,
     currentFile |-> e.currentFile, isComplete |-> e.isComplete,
     errors |-> progress[e.owner].errors, files |-> progress[e.owner].files]

\* ----------------------------------------------------------- orchestrator
\* Mutant: an item with missing data is passed over without being recorded.
RECURSIVE RunLoopPassesOverMissing(_, _, _, _)
RunLoopPassesOverMissing(p, items, k, oc) ==
    IF k > Len(items)
    THEN [progress |-> MarkComplete(p), i |-> k, pc |-> "done", outcome |-> oc]
    ELSE IF IsMissingData(items[k])
    THEN RunLoopPassesOverMissing(p, items, k + 1, oc)
    ELSE [progress |-> [p EXCEPT !.currentFile = items[k].filename],
          i |-> k, pc |-> "fetch", outcome |-> oc]

\* The for loop from its head with loop variable k, run up to its next await
\* (the fetch of the first item that has its data) or to the end of the task.
RECURSIVE RunLoop(_, _, _, _)
RunLoop(p, items, k, oc) ==
    IF k > Len(items)
    THEN [progress |-> MarkComplete(p), i |-> k, pc |-> "done", outcome |-> oc]
    ELSE IF IsMissingData(items[k])
    THEN RunLoop(RecordMissing(p, k), items, k + 1, [oc EXCEPT ![k] = [kind |-> "missing"]])
    ELSE [progress |-> [p EXCEPT !.currentFile = items[k].filename],
          i |-> k, pc |-> "fetch", outcome |-> oc]

NoResponse == [op |-> "none"]

\* The task's promise was rejected (and the rejection logged by console.error).
Rejected == {"mkdirSync threw", "length threw"}

NoOutcome(items) == [k \in 1..Len(items) |-> [kind |-> "none"]]

Init ==
    /\ now = 0
    /\ pc = [t \in Tasks |-> "unborn"]
    /\ progressId = [t \in Tasks |-> NeverIssued]
    /\ mediaItems = [t \in Tasks |-> <<>>]
    /\ i = [t \in Tasks |-> 0]
    /\ progress = [t \in Tasks |-> NoProgress]
    /\ outcome = [t \in Tasks |-> <<>>]
    /\ cleanedUp = {}
    /\ downloadProgress = EmptyMap
    /\ downloadDirs = EmptyMap
    /\ dirs = {}
    /\ files = EmptyMap
    /\ resp = NoResponse
    /\ call = NoCall
    /\ locator = Null
    /\ clientId = NeverIssued
    /\ isDownloading = FALSE
    /\ savedFiles = {}
    /\ callbacks = [c \in Callbacks |-> Idle]
    /\ existingFiles = [t \in Tasks |-> {}]
    /\ presentAtStart = [t \in Tasks |-> {}]
    /\ cancelledRef = FALSE
    /\ isSelecting = FALSE
    /\ showOverlay = FALSE
    /\ selection = [r \in Runs |-> NotStarted]
    /\ overlayOf = NoRun
    /\ cancelledRuns = {}
    /\ handed = {}

RECURSIVE SumLen(_, _)
SumLen(f, n) == IF n = 0 THEN 0 ELSE Len(f[n]) + SumLen(f, n - 1)

\* The items submitted so far.
Submitted == SumLen(mediaItems, MaxStarts)

\* The task slot of the next start request.
NextTask == CHOOSE t \in Tasks : pc[t] = "unborn" /\ \A u \in 1..(t - 1) : pc[u] # "unborn"

\* processDownloads(body, progressId) from its first line to its first await, or
\* to the throw that rejects its promise.  The record stored by
\* downloadProgress.set(progressId, progress) is replaced in the same run, at
\* either exit of RunLoop, by downloadProgress.set(progressId, {...progress}).
ProcessDownloads(t, body, id, mkdirThrows) ==
    LET tempDir == TempDirOf(id)
    IN  /\ progressId' = [progressId EXCEPT ![t] = id]
        /\ files' = files
        /\ IF ~existsSync(tempDir) /\ mkdirThrows
           THEN \* mkdirSync throws
                /\ pc' = [pc EXCEPT ![t] = "mkdirSync threw"]
                /\ UNCHANGED <<mediaItems, i, progress, outcome,
                               downloadProgress, downloadDirs, dirs>>
           ELSE /\ dirs' = dirs \cup {tempDir}
                /\ downloadDirs' = MapSet(downloadDirs, id, tempDir)
                /\ IF ~Has(body, "mediaItems")
                   THEN \* mediaItems.length throws a TypeError
                        /\ pc' = [pc EXCEPT ![t] = "length threw"]
                        /\ UNCHANGED <<mediaItems, i, progress, outcome, downloadProgress>>
                   ELSE LET items == body.mediaItems
                            r == RunLoop(InitialProgress(items), items, 1, NoOutcome(items))
                        IN  /\ mediaItems' = [mediaItems EXCEPT ![t] = items]
                            /\ pc' = [pc EXCEPT ![t] = r.pc]
                            /\ i' = [i EXCEPT ![t] = r.i]
                            /\ progress' = [progress EXCEPT ![t] = r.progress]
                            /\ outcome' = [outcome EXCEPT ![t] = r.outcome]
                            /\ downloadProgress' =
                                   MapSet(downloadProgress, id, ShallowCopy(t, r.progress))

\* POST /api/download with a body that parses as JSON.  sameMs: Date.now() still
\* shows the millisecond the start request before this one read.
StartDownload(body, sameMs, mkdirThrows) ==
    /\ \E t \in Tasks : pc[t] = "unborn"
    /\ Has(body, "mediaItems") => Submitted + Len(body.mediaItems) <= MaxTotal
    /\ sameMs => now \in Ids
    /\ now' = IF sameMs THEN now ELSE now + 1
    /\ ProcessDownloads(NextTask, body, now', mkdirThrows)
    /\ resp' = [op |-> "download", request |-> body, task |-> NextTask,
                status |-> 200, success |-> TRUE, progressId |-> now']
    /\ cleanedUp' = cleanedUp
    /\ UNCHANGED outside

\* The catch of the start handler.
MalformedResponse == [status |-> 400, success |-> FALSE]

\* POST /api/download with a body req.json() rejects.
StartMalformed ==
    /\ MalformedResponse.status = 400
    /\ resp' = NoResponse
    /\ UNCHANGED <<now, pc, progressId, mediaItems, i, progress, outcome, cleanedUp,
                   downloadProgress, downloadDirs, dirs, files, outside>>

\* Mutant: the loop goes on to the next item as soon as the fetch has settled,
\* without the timer.
FetchReturnSkipsDelay(t, result) ==
    /\ pc[t] = "fetch"
    /\ LET id == progressId[t]
           filename == mediaItems[t][i[t]].filename
           targetPath == join(TempDirOf(id), filename)
           written == result.ok /\ CanWrite(targetPath)
           error == IF result.ok THEN "Error: ENOENT" ELSE result.error
           p == IF written
                THEN RecordSuccess(progress[t], filename, Len(result.bytes))
                ELSE RecordFailure(progress[t], filename, error)
           oc == [outcome[t] EXCEPT ![i[t]] =
                      IF written THEN [kind |-> "ok", bytes |-> result.bytes]
                      ELSE [kind |-> "failed", error |-> error]]
           r == RunLoop(p, mediaItems[t], i[t] + 1, oc)
       IN  /\ files' = IF written THEN WriteFile(files, targetPath, result.bytes) ELSE files
           /\ progress' = [progress EXCEPT ![t] = r.progress]
           /\ outcome' = [outcome EXCEPT ![t] = r.outcome]
           /\ downloadProgress' = MapSet(downloadProgress, id, ShallowCopy(t, r.progress))
           /\ pc' = [pc EXCEPT ![t] = r.pc]
           /\ i' = [i EXCEPT ![t] = r.i]
    /\ resp' = NoResponse
    /\ UNCHANGED <<now, progressId, mediaItems, cleanedUp, downloadDirs, dirs, outside>>

\* downloadFile(downloadUrl, targetPath, oauthToken) settles: the remote answer
\* arrives, the body is written, and the run goes on to the await of the delay.
\* The two awaits of downloadFile (fetch, arrayBuffer) are one step: nothing is
\* read or written between them.  Every throw of downloadFile (non-ok status,
\* writeFileSync into a removed directory) lands in the catch of the loop.
FetchReturn(t, result) ==
    /\ pc[t] = "fetch"
    /\ LET id == progressId[t]
           filename == mediaItems[t][i[t]].filename
           targetPath == join(TempDirOf(id), filename)
           written == result.ok /\ CanWrite(targetPath)
           error == IF result.ok THEN "Error: ENOENT" ELSE result.error
           p == IF written
                THEN RecordSuccess(progress[t], filename, Len(result.bytes))
                ELSE RecordFailure(progress[t], filename, error)
       IN  /\ files' = IF written THEN WriteFile(files, targetPath, result.bytes) ELSE files
           /\ progress' = [progress EXCEPT ![t] = p]
           /\ outcome' = [outcome EXCEPT ![t][i[t]] =
                              IF written THEN [kind |-> "ok", bytes |-> result.bytes]
                              ELSE [kind |-> "failed", error |-> error]]
           /\ downloadProgress' = MapSet(downloadProgress, id, ShallowCopy(t, p))
    /\ pc' = [pc EXCEPT ![t] = "delay"]
    /\ resp' = NoResponse
    /\ UNCHANGED <<now, progressId, mediaItems, i, cleanedUp, downloadDirs, dirs, outside>>

\* Mutant: after the delay an item whose fetch failed is tried again.
DelayElapsedRetries(t) ==
    /\ pc[t] = "delay"
    /\ LET again == outcome[t][i[t]].kind = "failed"
           r == RunLoop(progress[t], mediaItems[t], IF again THEN i[t] ELSE i[t] + 1,
                        outcome[t])
       IN  /\ pc' = [pc EXCEPT ![t] = r.pc]
           /\ i' = [i EXCEPT ![t] = r.i]
           /\ progress' = [progress EXCEPT ![t] = r.progress]
           /\ outcome' = [outcome EXCEPT ![t] = r.outcome]
           /\ downloadProgress' =
                  MapSet(downloadProgress, progressId[t], ShallowCopy(t, r.progress))
    /\ resp' = NoResponse
    /\ UNCHANGED <<now, progressId, mediaItems, cleanedUp, downloadDirs, dirs, files,
                   outside>>

\* Mutant: when the timer fires the run looks for its staging entry and gives
\* up the rest of the batch if a cleanup has removed it.
DelayElapsedStopsAfterCleanup(t) ==
    /\ pc[t] = "delay"
    /\ IF progressId[t] \notin DOMAIN downloadDirs
       THEN /\ pc' = [pc EXCEPT ![t] = "done"]
            /\ UNCHANGED <<i, progress, outcome, downloadProgress>>
       ELSE LET r == RunLoop(progress[t], mediaItems[t], i[t] + 1, outcome[t])
            IN  /\ pc' = [pc EXCEPT ![t] = r.pc]
                /\ i' = [i EXCEPT ![t] = r.i]
                /\ progress' = [progress EXCEPT ![t] = r.progress]
                /\ outcome' = [outcome EXCEPT ![t] = r.outcome]
                /\ downloadProgress' =
                       MapSet(downloadProgress, progressId[t], ShallowCopy(t, r.progress))
    /\ resp' = NoResponse
    /\ UNCHANGED <<now, progressId, mediaItems, cleanedUp, downloadDirs, dirs, files,
                   outside>>

\* The 100 ms timer fires: the loop goes on with the next item.
DelayElapsed(t) ==
    /\ pc[t] = "delay"
    /\ LET r == RunLoop(progress[t], mediaItems[t], i[t] + 1, outcome[t])
       IN  /\ pc' = [pc EXCEPT ![t] = r.pc]
           /\ i' = [i EXCEPT ![t] = r.i]
           /\ progress' = [progress EXCEPT ![t] = r.progress]
           /\ outcome' = [outcome EXCEPT ![t] = r.outcome]
           /\ downloadProgress' =
                  MapSet(downloadProgress, progressId[t], ShallowCopy(t, r.progress))
    /\ resp' = NoResponse
    /\ UNCHANGED <<now, progressId, mediaItems, cleanedUp, downloadDirs, dirs, files,
                   outside>>

\* GET /api/progress
ProgressHandler(q) ==
    IF ~Has(q, "id") THEN [status |-> 400, body |-> "Missing progress ID"]
    ELSE IF q.id \notin DOMAIN downloadProgress
    THEN [status |-> 404, body |-> "Progress not found"]
    ELSE [status |-> 200, body |-> Deref(downloadProgress[q.id])]

GetProgress(q) ==
    /\ ProgressHandler(q).status \in {200, 400, 404}
    /\ resp' = NoResponse
    /\ UNCHANGED <<now, pc, progressId, mediaItems, i, progress, outcome, cleanedUp,
                   downloadProgress, downloadDirs, dirs, files, outside>>

\* Mutant: a file that is not in the staging directory is served as an empty body.
FileHandlerServesAbsent(q) ==
    IF ~Has(q, "progressId") \/ ~Has(q, "filename")
    THEN [status |-> 400, body |-> "Missing progressId or filename"]
    ELSE IF q.progressId \notin DOMAIN downloadDirs
    THEN [status |-> 404, body |-> "Download session not found"]
    ELSE LET filePath == join(downloadDirs[q.progressId], q.filename)
         IN  IF ~existsSync(filePath) THEN [status |-> 200, body |-> <<>>]
             ELSE [status |-> 200, body |-> files[filePath]]

\* GET /api/file
FileHandler(q) ==
    IF ~Has(q, "progressId") \/ ~Has(q, "filename")
    THEN [status |-> 400, body |-> "Missing progressId or filename"]
    ELSE IF q.progressId \notin DOMAIN downloadDirs
    THEN [status |-> 404, body |-> "Download session not found"]
    ELSE LET filePath == join(downloadDirs[q.progressId], q.filename)
         IN  IF ~existsSync(filePath) THEN [status |-> 404, body |-> "File not found"]
             ELSE [status |-> 200, body |-> files[filePath]]

GetFile(q) ==
    /\ FileHandler(q).status \in {200, 400, 404}
    /\ resp' = NoResponse
    /\ UNCHANGED <<now, pc, progressId, mediaItems, i, progress, outcome, cleanedUp,
                   downloadProgress, downloadDirs, dirs, files, outside>>

\* Mutant: the two map entries are deleted before rmSync is called, so they are
\* gone when it throws.
CleanupHandlerDeletesFirst(id, rmThrows, dp, dd, ds, fs) ==
    IF id \in DOMAIN dd /\ (dd[id] \in ds \/ dd[id] \in DOMAIN fs)
    THEN IF rmThrows
         THEN [status |-> 500, body |-> "Cleanup failed",
               downloadProgress |-> MapDelete(dp, id), downloadDirs |-> MapDelete(dd, id),
               dirs |-> ds, files |-> fs]
         ELSE [status |-> 200, body |-> [success |-> TRUE],
               downloadProgress |-> MapDelete(dp, id), downloadDirs |-> MapDelete(dd, id),
               dirs |-> {d \in ds : ~IsPrefix(dd[id], d)}, files |-> RemoveTree(fs, dd[id])]
    ELSE [status |-> 200, body |-> [success |-> TRUE],
          downloadProgress |-> dp, downloadDirs |-> dd, dirs |-> ds, files |-> fs]

\* Mutant: a successful cleanup clears both maps and every staging directory.
CleanupHandlerClearsAll(id, rmThrows, dp, dd, ds, fs) ==
    IF id \in DOMAIN dd /\ (dd[id] \in ds \/ dd[id] \in DOMAIN fs)
    THEN IF rmThrows
         THEN [status |-> 500, body |-> "Cleanup failed",
               downloadProgress |-> dp, downloadDirs |-> dd, dirs |-> ds, files |-> fs]
         ELSE [status |-> 200, body |-> [success |-> TRUE],
               downloadProgress |-> EmptyMap, downloadDirs |-> EmptyMap,
               dirs |-> {}, files |-> EmptyMap]
    ELSE [status |-> 200, body |-> [success |-> TRUE],
          downloadProgress |-> dp, downloadDirs |-> dd, dirs |-> ds, files |-> fs]

\* Mutant: a session without staging area is answered not-found.
CleanupHandlerUnknownIsError(id, rmThrows, dp, dd, ds, fs) ==
    IF id \in DOMAIN dd /\ (dd[id] \in ds \/ dd[id] \in DOMAIN fs)
    THEN IF rmThrows
         THEN [status |-> 500, body |-> "Cleanup failed",
               downloadProgress |-> dp, downloadDirs |-> dd, dirs |-> ds, files |-> fs]
         ELSE [status |-> 200, body |-> [success |-> TRUE],
               downloadProgress |-> MapDelete(dp, id), downloadDirs |-> MapDelete(dd, id),
               dirs |-> {d \in ds : ~IsPrefix(dd[id], d)}, files |-> RemoveTree(fs, dd[id])]
    ELSE [status |-> 404, body |-> "Download session not found",
          downloadProgress |-> dp, downloadDirs |-> dd, dirs |-> ds, files |-> fs]

\* Mutant: downloadProgress.delete(progressId) is forgotten.
CleanupHandlerKeepsProgress(id, rmThrows, dp, dd, ds, fs) ==
    IF id \in DOMAIN dd /\ (dd[id] \in ds \/ dd[id] \in DOMAIN fs)
    THEN IF rmThrows
         THEN [status |-> 500, body |-> "Cleanup failed",
               downloadProgress |-> dp, downloadDirs |-> dd, dirs |-> ds, files |-> fs]
         ELSE [status |-> 200, body |-> [success |-> TRUE],
               downloadProgress |-> dp, downloadDirs |-> MapDelete(dd, id),
               dirs |-> {d \in ds : ~IsPrefix(dd[id], d)}, files |-> RemoveTree(fs, dd[id])]
    ELSE [status |-> 200, body |-> [success |-> TRUE],
          downloadProgress |-> dp, downloadDirs |-> dd, dirs |-> ds, files |-> fs]

\* POST /api/cleanup: the response and the maps and disk it leaves.
CleanupHandler(id, rmThrows, dp, dd, ds, fs) ==
    IF id \in DOMAIN dd /\ (dd[id] \in ds \/ dd[id] \in DOMAIN fs)
    THEN IF rmThrows
         THEN [status |-> 500, body |-> "Cleanup failed",
               downloadProgress |-> dp, downloadDirs |-> dd, dirs |-> ds, files |-> fs]
         ELSE [status |-> 200, body |-> [success |-> TRUE],
               downloadProgress |-> MapDelete(dp, id), downloadDirs |-> MapDelete(dd, id),
               dirs |-> {d \in ds : ~IsPrefix(dd[id], d)}, files |-> RemoveTree(fs, dd[id])]
    ELSE [status |-> 200, body |-> [success |-> TRUE],
          downloadProgress |-> dp, downloadDirs |-> dd, dirs |-> ds, files |-> fs]

Cleanup(id, rmThrows) ==
    LET r == CleanupHandler(id, rmThrows, downloadProgress, downloadDirs, dirs, files)
    IN  /\ downloadProgress' = r.downloadProgress
        /\ downloadDirs' = r.downloadDirs
        /\ dirs' = r.dirs
        /\ files' = r.files
        /\ r.status \in {200, 500}
        /\ resp' = NoResponse
        /\ cleanedUp' = IF r.downloadDirs # downloadDirs THEN cleanedUp \cup {id} ELSE cleanedUp
        /\ UNCHANGED <<now, pc, progressId, mediaItems, i, progress, outcome, outside>>

Next ==
    \/ \E body \in Bodies, sameMs \in BOOLEAN, mkdirThrows \in BOOLEAN :
           StartDownload(body, sameMs, mkdirThrows)
    \/ StartMalformed
    \/ \E t \in Tasks, result \in FetchResults : FetchReturn(t, result)
    \/ \E t \in Tasks : DelayElapsed(t)
    \/ \E q \in ProgressQueries : GetProgress(q)
    \/ \E q \in FileQueries : GetFile(q)
    \/ \E id \in RequestIds, rmThrows \in BOOLEAN : Cleanup(id, rmThrows)

Spec == Init /\ [][Next]_vars

\* Every remote fetch settles and every timer fires.
Fairness ==
    \A t \in Tasks :
        /\ WF_vars(\E result \in FetchResults : FetchReturn(t, result))
        /\ WF_vars(DelayElapsed(t))

LiveSpec == Spec /\ Fairness

\* ------------------------------------------------- the locator on its own
relay == <<now, pc, progressId, mediaItems, i, progress, outcome, cleanedUp,
           downloadProgress, downloadDirs, dirs, files, resp>>

client == <<clientId, isDownloading, savedFiles, callbacks>>

\* One call of generateDownloadUrl, as the loop makes it for an item.
GenerateDownloadUrl(c) ==
    /\ call' = c
    /\ locator' = generateDownloadUrl(c.baseUrl, c.mediaType, c.mimeType, c.settings)
    /\ UNCHANGED <<relay, client, direct, selector>>

UrlNext == \E c \in UrlCalls : GenerateDownloadUrl(c)

UrlSpec == Init /\ [][UrlNext]_vars

\* ------------------------- the relay with file names that name directories
TraversalItemLists ==
    {<<[filename |-> f, baseUrl |-> b]>> : f \in {"a.jpg"} \cup TraversalNames, b \in BaseUrls}

TraversalBodies == [oauthToken : {"token"}, mediaItems : TraversalItemLists]

TraversalQueries == [progressId : Ids, filename : {"a.jpg"} \cup TraversalNames]

TraversalNext ==
    \/ \E body \in TraversalBodies : StartDownload(body, FALSE, FALSE)
    \/ \E t \in Tasks, result \in FetchResults : FetchReturn(t, result)
    \/ \E t \in Tasks : DelayElapsed(t)
    \/ \E q \in TraversalQueries : GetFile(q)
    \/ \E id \in Ids : Cleanup(id, FALSE)

TraversalSpec == Init /\ [][TraversalNext]_vars

\* --------------------------------------- the relay with one browser client
\* The bodies handleStartDownload posts: it returns early on an empty list.
ClientBodies == {b \in Bodies : Has(b, "oauthToken") /\ Has(b, "mediaItems")
                                  /\ Len(b.mediaItems) > 0}

\* handleStartDownload up to its await of the POST, and the relay's handling of
\* that request.  The state isDownloading is set when the response is taken.
ClientPost(body) ==
    /\ \A t \in Tasks : pc[t] = "unborn"
    /\ StartDownload(body, FALSE, FALSE)

\* handleStartDownload after the POST: setProgressId(result.progressId); the
\* effect then starts the interval.
StartAnswered ==
    /\ clientId = NeverIssued
    /\ \E t \in Tasks : pc[t] # "unborn" /\ clientId' = progressId[t]
    /\ isDownloading' = TRUE
    /\ resp' = NoResponse
    /\ UNCHANGED <<now, pc, progressId, mediaItems, i, progress, outcome, cleanedUp,
                   downloadProgress, downloadDirs, dirs, files, call, locator, direct, selector,
                   savedFiles, callbacks>>

\* The interval fires: pollProgressAndSave of the latest effect starts, with the
\* savedFiles of that render in its closure, and sends its poll.
TimerFires(c) ==
    /\ isDownloading
    /\ clientId # NeverIssued
    /\ callbacks[c] = Idle
    /\ callbacks' = [callbacks EXCEPT ![c] = [pc |-> "polling", saved |-> savedFiles]]
    /\ UNCHANGED <<relay, call, locator, direct, selector, clientId, isDownloading, savedFiles>>

RECURSIVE NextUnsaved(_, _, _)
NextUnsaved(names, k, saved) ==
    IF k > Len(names) THEN k
    ELSE IF names[k] \notin saved THEN k
    ELSE NextUnsaved(names, k + 1, saved)

\* Mutant: isComplete is looked at before the loop over the files.
ContinueSavingCleansFirst(cb, k) ==
    LET n == NextUnsaved(cb.names, k, cb.saved)
    IN  IF cb.isComplete
        THEN [run |-> [cb EXCEPT !.pc = "cleanup requested"], stop |-> TRUE]
        ELSE IF n <= Len(cb.names)
        THEN [run |-> [cb EXCEPT !.pc = "file requested", !.k = n,
                                 !.tried = @ \cup {n}], stop |-> FALSE]
        ELSE [run |-> Idle, stop |-> FALSE]

\* pollProgressAndSave from the head of its for loop at position k to its next
\* await: the file request for the next file not in the closure's savedFiles,
\* or, behind the loop, the cleanup request of a complete batch, or its end.
\* tried collects the positions of the list a file request was sent for.
ContinueSaving(cb, k) ==
    LET n == NextUnsaved(cb.names, k, cb.saved)
    IN  IF n <= Len(cb.names)
        THEN [run |-> [cb EXCEPT !.pc = "file requested", !.k = n,
                                 !.tried = @ \cup {n}], stop |-> FALSE]
        ELSE IF cb.isComplete
        THEN [run |-> [cb EXCEPT !.pc = "cleanup requested"], stop |-> TRUE]
        ELSE [run |-> Idle, stop |-> FALSE]

RECURSIVE FileNamesOf(_)
FileNamesOf(list) ==
    IF list = <<>> THEN <<>> ELSE <<Head(list).filename>> \o FileNamesOf(Tail(list))

\* The relay answers the poll and the callback takes the answer.
PollAnswered(c) ==
    /\ callbacks[c].pc = "polling"
    /\ LET r == ProgressHandler([id |-> clientId])
       IN  IF r.status # 200
           THEN /\ callbacks' = [callbacks EXCEPT ![c] = Idle]
                /\ isDownloading' = isDownloading
           ELSE LET cb == [pc |-> "saving", saved |-> callbacks[c].saved,
                           names |-> FileNamesOf(r.body.files),
                           isComplete |-> r.body.isComplete, k |-> 1, tried |-> {}]
                    next == ContinueSaving(cb, 1)
                IN  /\ callbacks' = [callbacks EXCEPT ![c] = next.run]
                    /\ isDownloading' = (isDownloading /\ ~next.stop)
    /\ UNCHANGED <<relay, call, locator, direct, selector, clientId, savedFiles>>

\* The relay handles the file request of saveFileToDirectory.
ServeFile(c) ==
    /\ callbacks[c].pc = "file requested"
    /\ LET cb == callbacks[c]
           r == FileHandler([progressId |-> clientId, filename |-> cb.names[cb.k]])
       IN  callbacks' = [callbacks EXCEPT ![c] =
                             [pc |-> "file served", saved |-> cb.saved, names |-> cb.names,
                              isComplete |-> cb.isComplete, k |-> cb.k,
                              tried |-> cb.tried, ok |-> r.status = 200]]
    /\ UNCHANGED <<relay, call, locator, direct, selector, clientId, isDownloading, savedFiles>>

\* The file response arrives: saveFileToDirectory writes the file and adds its
\* name to savedFiles, or catches the error (a response that is not ok, a
\* permission that is not granted); the loop goes on.
FileReceived(c, granted) ==
    /\ callbacks[c].pc = "file served"
    /\ LET cb == callbacks[c]
           written == cb.ok /\ granted
           next == ContinueSaving([pc |-> "saving", saved |-> cb.saved, names |-> cb.names,
                                   isComplete |-> cb.isComplete, k |-> cb.k,
                                   tried |-> cb.tried], cb.k + 1)
       IN  /\ savedFiles' = IF written THEN savedFiles \cup {cb.names[cb.k]} ELSE savedFiles
           /\ callbacks' = [callbacks EXCEPT ![c] = next.run]
           /\ isDownloading' = (isDownloading /\ ~next.stop)
    /\ UNCHANGED <<relay, call, locator, direct, selector, clientId>>

\* The relay handles the cleanup request of the callback, which then ends.
ServeCleanup(c) ==
    /\ callbacks[c].pc = "cleanup requested"
    /\ LET r == CleanupHandler(clientId, FALSE, downloadProgress, downloadDirs, dirs, files)
       IN  /\ downloadProgress' = r.downloadProgress
           /\ downloadDirs' = r.downloadDirs
           /\ dirs' = r.dirs
           /\ files' = r.files
           /\ cleanedUp' = IF r.downloadDirs # downloadDirs
                           THEN cleanedUp \cup {clientId} ELSE cleanedUp
    /\ callbacks' = [callbacks EXCEPT ![c] = Idle]
    /\ resp' = NoResponse
    /\ UNCHANGED <<now, pc, progressId, mediaItems, i, progress, outcome, call, locator,
                   direct, selector,
                   clientId, isDownloading, savedFiles>>

ClientNext ==
    \/ \E body \in ClientBodies : ClientPost(body)
    \/ StartAnswered
    \/ \E t \in Tasks, result \in FetchResults : FetchReturn(t, result)
    \/ \E t \in Tasks : DelayElapsed(t)
    \/ \E c \in Callbacks : TimerFires(c)
    \/ \E c \in Callbacks : PollAnswered(c)
    \/ \E c \in Callbacks : ServeFile(c)
    \/ \E c \in Callbacks, granted \in BOOLEAN : FileReceived(c, granted)
    \/ \E c \in Callbacks : ServeCleanup(c)

ClientSpec == Init /\ [][ClientNext]_vars

\* ------------------------------------------------- the photo selector
\* What a run of handleSelectPhotos reads and writes: its own position and the
\* component's cancelledRef, isSelecting and showOverlay.
View(r) ==
    [pc |-> selection[r].pc, elapsed |-> selection[r].elapsed,
     cancelledRef |-> cancelledRef, isSelecting |-> isSelecting, showOverlay |-> showOverlay]

Apply(r, v) ==
    /\ selection' = [selection EXCEPT ![r] = [pc |-> v.pc, elapsed |-> v.elapsed]]
    /\ cancelledRef' = v.cancelledRef
    /\ isSelecting' = v.isSelecting
    /\ showOverlay' = v.showOverlay

\* finally { setIsSelecting(false); cancelledRef.current = false }
Finally(v) == [v EXCEPT !.pc = "ended", !.isSelecting = FALSE, !.cancelledRef = FALSE]

\* catch (error) { setShowOverlay(false); ... } and the finally block
Caught(v) == Finally([v EXCEPT !.showOverlay = FALSE])

\* handleSelectPhotos from the return of pollSession to its next await or end.
AfterPollSession(v, mediaItemsSet) ==
    IF v.cancelledRef THEN Finally(v)
    ELSE IF mediaItemsSet THEN [v EXCEPT !.pc = "pause", !.showOverlay = FALSE]
    ELSE Finally([v EXCEPT !.showOverlay = FALSE, !.isSelecting = FALSE])

\* pollSession from the head of its while loop to the await of its fetch, or to
\* its return and on into handleSelectPhotos.
LoopHead(v) ==
    IF v.elapsed < MaxPolls /\ ~v.cancelledRef THEN [v EXCEPT !.pc = "polling"]
    ELSE AfterPollSession(v, FALSE)

\* The user clicks "Select Photos" (disabled while isSelecting): the run starts
\* and awaits createPickerSession.
HandleSelectPhotos(r) ==
    /\ ~isSelecting
    /\ selection[r].pc = "unborn"
    /\ \A u \in 1..(r - 1) : selection[u].pc # "unborn"
    /\ Apply(r, [View(r) EXCEPT !.pc = "creating", !.isSelecting = TRUE,
                                !.cancelledRef = FALSE])
    /\ UNCHANGED <<overlayOf, cancelledRuns, handed, relay, call, locator, client, direct>>

\* createPickerSession settles and the popup opens, or one of the two throws;
\* with the popup open the overlay is shown and pollSession starts.
PickerSessionCreated(r, created) ==
    /\ selection[r].pc = "creating"
    /\ IF created
       THEN /\ Apply(r, LoopHead([View(r) EXCEPT !.showOverlay = TRUE, !.elapsed = 0]))
            /\ overlayOf' = r
       ELSE /\ Apply(r, Caught(View(r)))
            /\ overlayOf' = overlayOf
    /\ UNCHANGED <<cancelledRuns, handed, relay, call, locator, client, direct>>

PollAnswers == {"mediaItemsSet", "pending", "not ok"}

\* The fetch of pollSession settles: mediaItemsSet ends the polling, a response
\* that is not ok throws, anything else leads to the wait.
PollSessionAnswered(r, answer) ==
    /\ selection[r].pc = "polling"
    /\ Apply(r, IF answer = "mediaItemsSet" THEN AfterPollSession(View(r), TRUE)
                ELSE IF answer = "not ok" THEN Caught(View(r))
                ELSE [View(r) EXCEPT !.pc = "waiting"])
    /\ UNCHANGED <<overlayOf, cancelledRuns, handed, relay, call, locator, client, direct>>

\* The wait of pollSession ends: elapsed grows, the cancellation is checked, and
\* the loop goes on.
PollWaitElapsed(r) ==
    /\ selection[r].pc = "waiting"
    /\ LET v == [View(r) EXCEPT !.elapsed = @ + 1]
       IN  Apply(r, IF v.cancelledRef THEN AfterPollSession(v, FALSE) ELSE LoopHead(v))
    /\ UNCHANGED <<overlayOf, cancelledRuns, handed, relay, call, locator, client, direct>>

\* The 600 ms pause ends: fetchPickedMediaItems is called.
PauseElapsed(r) ==
    /\ selection[r].pc = "pause"
    /\ Apply(r, [View(r) EXCEPT !.pc = "fetching"])
    /\ UNCHANGED <<overlayOf, cancelledRuns, handed, relay, call, locator, client, direct>>

FetchedItems == {"items", "no items", "throws"}

\* fetchPickedMediaItems settles: with items, onPhotosSelected is called.
MediaItemsFetched(r, fetched) ==
    /\ selection[r].pc = "fetching"
    /\ Apply(r, IF fetched = "throws" THEN Caught(View(r)) ELSE Finally(View(r)))
    /\ handed' = IF fetched = "items" THEN handed \cup {r} ELSE handed
    /\ UNCHANGED <<overlayOf, cancelledRuns, relay, call, locator, client, direct>>

\* The user clicks Cancel in the overlay.
HandleCancelSelection ==
    /\ showOverlay
    /\ cancelledRef' = TRUE
    /\ showOverlay' = FALSE
    /\ isSelecting' = FALSE
    /\ cancelledRuns' = cancelledRuns \cup
           {r \in Runs : r = overlayOf /\ selection[r].pc \in {"polling", "waiting"}}
    /\ UNCHANGED <<selection, overlayOf, handed, relay, call, locator, client, direct>>

SelectorNext ==
    \/ \E r \in Runs : HandleSelectPhotos(r)
    \/ \E r \in Runs, created \in BOOLEAN : PickerSessionCreated(r, created)
    \/ \E r \in Runs, answer \in PollAnswers : PollSessionAnswered(r, answer)
    \/ \E r \in Runs : PollWaitElapsed(r)
    \/ \E r \in Runs : PauseElapsed(r)
    \/ \E r \in Runs, fetched \in FetchedItems : MediaItemsFetched(r, fetched)
    \/ HandleCancelSelection

SelectorSpec == Init /\ [][SelectorNext]_vars

\* ------------------------------------- the direct-to-directory server
\* resolve(selectedDirectoryPath)
TargetDir == <<"photos">>

\* What the user's directory holds before a batch: any of the file names, with
\* content of an earlier sync.
OldBytes == <<9, 9, 9>>

InitialContents ==
    {[path \in {join(TargetDir, f) : f \in S} |-> OldBytes] : S \in SUBSET FileNames}

\* readdirSync(resolvedTargetDir)
readdirSync(dir) == {path[Len(path)] : path \in {q \in DOMAIN files : IsPrefix(dir, q)}}

DirectInitialProgress(items) ==
    [total |-> Len(items), downloaded |-> 0, skipped |-> 0, failed |-> 0,
     currentFile |-> Null, isComplete |-> FALSE, errors |-> <<>>]

\* { ...progress } of server.ts: the scalars copied, errors shared with the task.
DirectShallowCopy(t, p) ==
    [owner |-> t, total |-> p.total, downloaded |-> p.downloaded, skipped |-> p.skipped,
     failed |-> p.failed, currentFile |-> p.currentFile, isComplete |-> p.isComplete]

\* progress.skipped++
RecordSkip(p) == [p EXCEPT !.skipped = @ + 1]

\* The for loop of server.ts from its head with loop variable k, run up to its
\* next await or to the end of the task.  existingFiles.add(filename) of the skip
\* branch adds a member the set has.
RECURSIVE RunDirectLoop(_, _, _, _, _)
RunDirectLoop(p, items, k, oc, existing) ==
    IF k > Len(items)
    THEN [progress |-> MarkComplete(p), i |-> k, pc |-> "done", outcome |-> oc]
    ELSE IF IsMissingData(items[k])
    THEN RunDirectLoop(RecordMissing(p, k), items, k + 1,
                       [oc EXCEPT ![k] = [kind |-> "missing"]], existing)
    ELSE IF items[k].filename \in existing
    THEN RunDirectLoop(RecordSkip([p EXCEPT !.currentFile = items[k].filename]), items,
                       k + 1, [oc EXCEPT ![k] = [kind |-> "skipped"]], existing)
    ELSE [progress |-> [p EXCEPT !.currentFile = items[k].filename],
          i |-> k, pc |-> "fetch", outcome |-> oc]

DirectInit ==
    /\ now = 0
    /\ pc = [t \in Tasks |-> "unborn"]
    /\ progressId = [t \in Tasks |-> NeverIssued]
    /\ mediaItems = [t \in Tasks |-> <<>>]
    /\ i = [t \in Tasks |-> 0]
    /\ progress = [t \in Tasks |-> DirectInitialProgress(<<>>)]
    /\ outcome = [t \in Tasks |-> <<>>]
    /\ cleanedUp = {}
    /\ downloadProgress = EmptyMap
    /\ downloadDirs = EmptyMap
    /\ files \in InitialContents
    /\ dirs \in IF files = EmptyMap THEN {{}, {TargetDir}} ELSE {{TargetDir}}
    /\ resp = NoResponse
    /\ call = NoCall
    /\ locator = Null
    /\ clientId = NeverIssued
    /\ isDownloading = FALSE
    /\ savedFiles = {}
    /\ callbacks = [c \in Callbacks |-> Idle]
    /\ existingFiles = [t \in Tasks |-> {}]
    /\ presentAtStart = [t \in Tasks |-> {}]
    /\ cancelledRef = FALSE
    /\ isSelecting = FALSE
    /\ showOverlay = FALSE
    /\ selection = [r \in Runs |-> NotStarted]
    /\ overlayOf = NoRun
    /\ cancelledRuns = {}
    /\ handed = {}

\* POST /api/download of server.ts with a body that parses: the handler and
\* processDownloads(body, progressId) up to its first await or its throw.
DirectStart(body, sameMs, mkdirThrows, readdirThrows) ==
    /\ \E t \in Tasks : pc[t] = "unborn"
    /\ Has(body, "mediaItems") => Submitted + Len(body.mediaItems) <= MaxTotal
    /\ sameMs => now \in Ids
    /\ now' = IF sameMs THEN now ELSE now + 1
    /\ LET t == NextTask
           id == now'
       IN  /\ progressId' = [progressId EXCEPT ![t] = id]
           /\ presentAtStart' = [presentAtStart EXCEPT ![t] = readdirSync(TargetDir)]
           /\ IF ~existsSync(TargetDir) /\ mkdirThrows
              THEN /\ pc' = [pc EXCEPT ![t] = "mkdirSync threw"]
                   /\ UNCHANGED <<mediaItems, i, progress, outcome, downloadProgress,
                                  dirs, existingFiles>>
              ELSE /\ dirs' = dirs \cup {TargetDir}
                   /\ IF ~Has(body, "mediaItems")
                      THEN /\ pc' = [pc EXCEPT ![t] = "length threw"]
                           /\ UNCHANGED <<mediaItems, i, progress, outcome,
                                          downloadProgress, existingFiles>>
                      ELSE LET items == body.mediaItems
                               existing == IF readdirThrows THEN {}
                                           ELSE readdirSync(TargetDir)
                               r == RunDirectLoop(DirectInitialProgress(items), items, 1,
                                                  NoOutcome(items), existing)
                           IN  /\ mediaItems' = [mediaItems EXCEPT ![t] = items]
                               /\ existingFiles' = [existingFiles EXCEPT ![t] = existing]
                               /\ pc' = [pc EXCEPT ![t] = r.pc]
                               /\ i' = [i EXCEPT ![t] = r.i]
                               /\ progress' = [progress EXCEPT ![t] = r.progress]
                               /\ outcome' = [outcome EXCEPT ![t] = r.outcome]
                               /\ downloadProgress' =
                                      MapSet(downloadProgress, id,
                                             DirectShallowCopy(t, r.progress))
    /\ resp' = NoResponse
    /\ UNCHANGED <<cleanedUp, downloadDirs, files, call, locator, client, selector>>

\* downloadFile(downloadUrl, targetPath, oauthToken) of server.ts settles.
DirectFetchReturn(t, result) ==
    /\ pc[t] = "fetch"
    /\ LET filename == mediaItems[t][i[t]].filename
           targetPath == join(TargetDir, filename)
           p == IF result.ok
                THEN [progress[t] EXCEPT !.downloaded = @ + 1]
                ELSE RecordFailure(progress[t], filename, result.error)
       IN  /\ files' = IF result.ok THEN WriteFile(files, targetPath, result.bytes) ELSE files
           /\ existingFiles' = IF result.ok
                               THEN [existingFiles EXCEPT ![t] = @ \cup {filename}]
                               ELSE existingFiles
           /\ progress' = [progress EXCEPT ![t] = p]
           /\ outcome' = [outcome EXCEPT ![t][i[t]] =
                              IF result.ok THEN [kind |-> "ok", bytes |-> result.bytes]
                              ELSE [kind |-> "failed", error |-> result.error]]
           /\ downloadProgress' =
                  MapSet(downloadProgress, progressId[t], DirectShallowCopy(t, p))
    /\ pc' = [pc EXCEPT ![t] = "delay"]
    /\ UNCHANGED <<now, progressId, mediaItems, i, cleanedUp, downloadDirs, dirs, resp,
                   call, locator, client, presentAtStart, selector>>

\* The 100 ms timer of server.ts fires.
DirectDelayElapsed(t) ==
    /\ pc[t] = "delay"
    /\ LET r == RunDirectLoop(progress[t], mediaItems[t], i[t] + 1, outcome[t],
                              existingFiles[t])
       IN  /\ pc' = [pc EXCEPT ![t] = r.pc]
           /\ i' = [i EXCEPT ![t] = r.i]
           /\ progress' = [progress EXCEPT ![t] = r.progress]
           /\ outcome' = [outcome EXCEPT ![t] = r.outcome]
           /\ downloadProgress' =
                  MapSet(downloadProgress, progressId[t], DirectShallowCopy(t, r.progress))
    /\ UNCHANGED <<now, progressId, mediaItems, cleanedUp, downloadDirs, dirs, files, resp,
                   outside>>

\* GET /api/progress of server.ts
DirectProgressHandler(q) ==
    IF ~Has(q, "id") THEN [status |-> 400, body |-> "Missing progress ID"]
    ELSE IF q.id \notin DOMAIN downloadProgress
    THEN [status |-> 404, body |-> "Progress not found"]
    ELSE LET e == downloadProgress[q.id]
         IN  [status |-> 200,
              body |-> [total |-> e.total, downloaded |-> e.downloaded,
                        skipped |-> e.skipped, failed |-> e.failed,
                        currentFile |-> e.currentFile, isComplete |-> e.isComplete,
                        errors |-> progress[e.owner].errors]]

DirectGetProgress(q) ==
    /\ DirectProgressHandler(q).status \in {200, 400, 404}
    /\ UNCHANGED vars

DirectNext ==
    \/ \E body \in Bodies, sameMs, mkdirThrows, readdirThrows \in BOOLEAN :
           DirectStart(body, sameMs, mkdirThrows, readdirThrows)
    \/ \E t \in Tasks, result \in FetchResults : DirectFetchReturn(t, result)
    \/ \E t \in Tasks : DirectDelayElapsed(t)
    \/ \E q \in ProgressQueries : DirectGetProgress(q)

DirectSpec == DirectInit /\ [][DirectNext]_vars

\* ------------------------------------------------------------------ claims
Started(t) == pc[t] # "unborn"

Items(t) == 1..Len(mediaItems[t])

Succeeded(t) == {k \in Items(t) : outcome[t][k].kind = "ok"}

NotSucceeded(t) == {k \in Items(t) : outcome[t][k].kind \in {"missing", "failed"}}

\* The record of task t is the one stored under its session identifier.
Stored(t) ==
    /\ progressId[t] \in DOMAIN downloadProgress
    /\ downloadProgress[progressId[t]].owner = t

StoredRecord(t) == Deref(downloadProgress[progressId[t]])

\* Exactly one item of the finished batch of t failed and all others succeeded.
OneFailedRestSucceeded(t) ==
    /\ pc[t] = "done"
    /\ Cardinality(NotSucceeded(t)) = 1
    /\ Cardinality(Succeeded(t)) = Len(mediaItems[t]) - 1

IsolatedFailureRecord(r, n) ==
    /\ r.failed = 1
    /\ r.downloaded = n - 1
    /\ Len(r.errors) = 1
    /\ Len(r.files) = n - 1
    /\ r.isComplete

\* C1: when the task of a batch of N items has finished and exactly one item
\* (at any position) failed while all others succeeded, the task's progress
\* record, and the record stored for the session while it is the task's, has
\* failed = 1, downloaded = N-1, one error, N-1 completed files, isComplete.
C1_SequentialIsolation ==
    \A t \in Tasks :
        OneFailedRestSucceeded(t) =>
            /\ IsolatedFailureRecord(progress[t], Len(mediaItems[t]))
            /\ Stored(t) => IsolatedFailureRecord(StoredRecord(t), Len(mediaItems[t]))

\* A finished batch of two items whose first item failed at the remote service and
\* whose second item succeeded, with its record in the store.
C1_Witness ==
    \E t \in Tasks :
        /\ OneFailedRestSucceeded(t)
        /\ Len(mediaItems[t]) = 2
        /\ outcome[t][1].kind = "failed"
        /\ Stored(t)

\* C2: every record a poll can read has downloaded + failed <= total, and
\* isComplete only with downloaded + failed = total.
C2_CompleteOnlyWhenAllCounted ==
    \A id \in DOMAIN downloadProgress :
        LET r == Deref(downloadProgress[id])
        IN  /\ r.downloaded + r.failed <= r.total
            /\ r.isComplete => r.downloaded + r.failed = r.total

\* A poll reads a complete record of two items, one downloaded and one failed.
C2_Witness ==
    \E id \in DOMAIN downloadProgress :
        LET r == Deref(downloadProgress[id])
        IN  r.isComplete /\ r.total = 2 /\ r.downloaded = 1 /\ r.failed = 1

\* The record stored under the session identifier of t says the batch is complete.
StoredComplete(t) ==
    /\ progressId[t] \in DOMAIN downloadProgress
    /\ Deref(downloadProgress[progressId[t]]).isComplete

\* C3: every batch the start request answered with success eventually has
\* isComplete = true in the store, whatever its items are.
C3_EveryAnsweredBatchCompletes ==
    \A t \in Tasks :
        (resp.op = "download" /\ resp.success /\ resp.task = t) ~> StoredComplete(t)

\* The completed files the outcomes of the items k, k+1, ... of t call for, in
\* the order of the submitted list.
RECURSIVE SuccessesFrom(_, _)
SuccessesFrom(t, k) ==
    IF k > Len(mediaItems[t]) THEN <<>>
    ELSE (IF outcome[t][k].kind = "ok"
          THEN <<[filename |-> mediaItems[t][k].filename,
                  size |-> Len(outcome[t][k].bytes), ready |-> TRUE]>>
          ELSE <<>>) \o SuccessesFrom(t, k + 1)

\* C4: at every point the completed-files list of a task, and of the stored
\* record while it is the task's, is the list of the items fetched successfully
\* so far, in the order of the submitted item list.
C4_OrderPreserved ==
    \A t \in Tasks :
        /\ progress[t].files = SuccessesFrom(t, 1)
        /\ Stored(t) => StoredRecord(t).files = SuccessesFrom(t, 1)

\* A stored record lists two different completed files.
C4_Witness ==
    \E t \in Tasks :
        /\ Stored(t)
        /\ Len(StoredRecord(t).files) = 2
        /\ StoredRecord(t).files[1] # StoredRecord(t).files[2]

PairwiseDistinctFilenames(items) ==
    \A j, k \in 1..Len(items) : j # k => items[j].filename # items[k].filename

Listed(id, filename) ==
    /\ id \in DOMAIN downloadProgress
    /\ \E n \in 1..Len(Deref(downloadProgress[id]).files) :
           Deref(downloadProgress[id]).files[n].filename = filename

\* C5: for a batch of pairwise distinct filenames, while no cleanup has removed
\* the session, a fetched item whose filename is in the completed-files list of
\* the session is served by GET /api/file with exactly the bytes fetched for it.
C5_FetchAfterComplete ==
    \A t \in Tasks : \A k \in Items(t) :
        (/\ PairwiseDistinctFilenames(mediaItems[t])
         /\ outcome[t][k].kind = "ok"
         /\ progressId[t] \notin cleanedUp
         /\ Listed(progressId[t], mediaItems[t][k].filename))
        => FileHandler([progressId |-> progressId[t], filename |-> mediaItems[t][k].filename])
             = [status |-> 200, body |-> outcome[t][k].bytes]

CleanupOf(id, rmThrows) ==
    CleanupHandler(id, rmThrows, downloadProgress, downloadDirs, dirs, files)

Issued == {progressId[t] : t \in {u \in Tasks : Started(u)}}

\* C6: a cleanup of a session already cleaned up, or of an identifier never
\* issued, answers success and changes nothing; and a second cleanup after a
\* successful one answers success and leaves the maps and the disk as the
\* first left them.
C6_IdempotentCleanup ==
    \A id \in RequestIds : \A rmThrows \in BOOLEAN :
        /\ ((id \in cleanedUp /\ id \notin DOMAIN downloadDirs) \/ id \notin Issued)
           => /\ CleanupOf(id, rmThrows).status = 200
              /\ CleanupOf(id, rmThrows).downloadProgress = downloadProgress
              /\ CleanupOf(id, rmThrows).downloadDirs = downloadDirs
              /\ CleanupOf(id, rmThrows).dirs = dirs
              /\ CleanupOf(id, rmThrows).files = files
        /\ LET once == CleanupOf(id, FALSE)
               twice == CleanupHandler(id, rmThrows, once.downloadProgress,
                                       once.downloadDirs, once.dirs, once.files)
           IN  /\ once.status = 200
               /\ twice.status = 200
               /\ twice.downloadProgress = once.downloadProgress
               /\ twice.downloadDirs = once.downloadDirs
               /\ twice.dirs = once.dirs
               /\ twice.files = once.files

\* A session that a cleanup removed and that has no staging entry now, and
\* another session that still has its staging area.
C6_Witness ==
    /\ \E id \in cleanedUp : id \notin DOMAIN downloadDirs
    /\ \E id \in DOMAIN downloadDirs : existsSync(downloadDirs[id])

HasStagingArea(id) == id \in DOMAIN downloadDirs /\ existsSync(downloadDirs[id])

\* C7: a cleanup that answers success for a session that has a staging area
\* leaves no progress entry, no staging entry and no directory of the session,
\* and a poll and a file request right after it are answered 404.
C7_CleanupRemovesSession ==
    [][\A id \in RequestIds : \A rmThrows \in BOOLEAN :
          (HasStagingArea(id) /\ CleanupOf(id, rmThrows).status = 200 /\ Cleanup(id, rmThrows))
          => /\ id \notin DOMAIN downloadProgress'
             /\ id \notin DOMAIN downloadDirs'
             /\ TempDirOf(id) \notin dirs'
             /\ \A path \in DOMAIN files' : ~IsPrefix(TempDirOf(id), path)
             /\ (ProgressHandler([id |-> id]).status = 404)'
             /\ \A f \in FileNames :
                    (FileHandler([progressId |-> id, filename |-> f]).status = 404)'
      ]_vars

\* A cleanup has removed a session that had staged a file; a poll and a file
\* request for it are answered 404.
C7_Witness ==
    \E t \in Tasks :
        /\ progressId[t] \in cleanedUp
        /\ progress[t].downloaded > 0
        /\ ProgressHandler([id |-> progressId[t]]).status = 404
        /\ FileHandler([progressId |-> progressId[t],
                        filename |-> progress[t].files[1].filename]).status = 404

\* C8: two start requests are never answered with the same session identifier.
C8_SessionIdsUnique ==
    \A t, u \in Tasks : (Started(t) /\ Started(u) /\ t # u) => progressId[t] # progressId[u]

InvalidStart(body) ==
    \/ ~Has(body, "oauthToken")
    \/ ~Has(body, "mediaItems")
    \/ Has(body, "mediaItems") /\ body.mediaItems = <<>>

\* C9: a start request without credential, or with an empty or absent item
\* list, is answered 4xx and the background task is not entered: no progress
\* record and no staging area exists for it.
C9_InvalidStartRejected ==
    (resp.op = "download" /\ InvalidStart(resp.request))
    => /\ resp.status \in 400..499
       /\ pc[resp.task] = "unborn"
       /\ resp.progressId \notin DOMAIN downloadProgress
       /\ resp.progressId \notin DOMAIN downloadDirs

\* C10: when the staging directory cannot be created, the start request is not
\* answered with success and a session identifier.
C10_StagingFailureFailsStart ==
    (resp.op = "download" /\ pc[resp.task] = "mkdirSync threw")
    => ~resp.success /\ resp.status # 200
\* The items of t whose outcome the orchestrator has recorded.
Recorded(t) == {k \in Items(t) : outcome[t][k].kind # "none"}

\* C11: when the start response for a request with an item list is sent, the
\* session has its staging entry and its progress record, with total = number
\* of items, nothing downloaded and only missing-data items counted; and until
\* a cleanup of the session, a poll of a session whose task has started its
\* loop never finds the session unknown.
C11_VisibleBeforeResponse ==
    /\ (resp.op = "download" /\ Has(resp.request, "mediaItems"))
       => /\ resp.progressId \in DOMAIN downloadDirs
          /\ ProgressHandler([id |-> resp.progressId]).status = 200
          /\ LET r == ProgressHandler([id |-> resp.progressId]).body
             IN  /\ r.total = Len(resp.request.mediaItems)
                 /\ r.downloaded = 0
                 /\ r.files = <<>>
                 /\ r.failed = Cardinality(Recorded(resp.task))
                 /\ Len(r.errors) = r.failed
    /\ \A t \in Tasks :
           (Started(t) /\ pc[t] \notin Rejected /\ progressId[t] \notin cleanedUp)
           => ProgressHandler([id |-> progressId[t]]).status = 200
\* C12: a poll of the session of task t that is answered with a record reports
\* downloaded + failed >= k for every k whose outcome the task has recorded.
C12_PollSeesRecordedOutcomes ==
    \A t \in Tasks :
        ProgressHandler([id |-> progressId[t]]).status = 200
        => LET r == ProgressHandler([id |-> progressId[t]]).body
           IN  \A k \in Recorded(t) : r.downloaded + r.failed >= k
\* C13: every record a poll can be answered with has as many errors as failed
\* says and as many completed files as downloaded says.
C13_ConsistentSnapshot ==
    \A q \in ProgressQueries :
        ProgressHandler(q).status = 200
        => /\ Len(ProgressHandler(q).body.errors) = ProgressHandler(q).body.failed
           /\ Len(ProgressHandler(q).body.files) = ProgressHandler(q).body.downloaded

\* A poll is answered while the task waits out the delay behind its second item,
\* having counted a missing-data item and then a fetched one: the stored copy was
\* made after the shared lists last grew.
C13_Witness ==
    \E t \in Tasks :
        /\ pc[t] = "delay"
        /\ i[t] = 2
        /\ outcome[t][1].kind = "missing"
        /\ outcome[t][2].kind = "ok"
        /\ ProgressHandler([id |-> progressId[t]]).status = 200
        /\ ProgressHandler([id |-> progressId[t]]).body.failed = 1
        /\ ProgressHandler([id |-> progressId[t]]).body.downloaded = 1
\* The messages the outcomes of the items k, k+1, ... of t call for, in the order
\* of the submitted list.
RECURSIVE ErrorsFrom(_, _)
ErrorsFrom(t, k) ==
    IF k > Len(mediaItems[t]) THEN <<>>
    ELSE (CASE outcome[t][k].kind = "missing" ->
                  <<<<"Item", k, "Missing filename or baseUrl">>>>
            [] outcome[t][k].kind = "failed" ->
                  <<<<mediaItems[t][k].filename, outcome[t][k].error>>>>
            [] OTHER -> <<>>) \o ErrorsFrom(t, k + 1)

\* C14: at every point the errors list of a task's record, and of the stored
\* record while it is the task's, holds one message per item that failed so far,
\* in the order of the submitted list: the 1-based index message for an item
\* with missing data, filename and error text for an item whose fetch failed;
\* and a finished batch has total = N, downloaded = number of fetched items,
\* failed = number of failed items, isComplete.
C14_OneMessagePerFailure ==
    \A t \in Tasks :
        /\ progress[t].errors = ErrorsFrom(t, 1)
        /\ Stored(t) => StoredRecord(t).errors = ErrorsFrom(t, 1)
        /\ pc[t] = "done"
           => /\ progress[t].total = Len(mediaItems[t])
              /\ progress[t].downloaded = Cardinality(Succeeded(t))
              /\ progress[t].failed = Cardinality(NotSucceeded(t))
              /\ progress[t].isComplete
              /\ Stored(t) => StoredRecord(t) = progress[t]

\* The batch A (fetched), B (no filename), C (remote error status) has ended,
\* and a poll reads its record.
C14_Witness ==
    \E t \in Tasks :
        /\ pc[t] = "done"
        /\ mediaItems[t] = MixedBatch
        /\ Stored(t)
        /\ StoredRecord(t).total = 3
        /\ StoredRecord(t).downloaded = 1
        /\ StoredRecord(t).failed = 2
        /\ StoredRecord(t).isComplete
        /\ Len(StoredRecord(t).files) = 1
        /\ StoredRecord(t).files[1].filename = "a.jpg"
        /\ StoredRecord(t).errors =
               <<<<"Item", 2, "Missing filename or baseUrl">>, <<"b.jpg", "Error: HTTP 403">>>>
\* C15: from one answered poll of a session identifier to any later one, total
\* stays, downloaded and failed do not decrease, errors and the completed files
\* only grow at their end, and isComplete does not go back to false.
C15_PollsMonotonic ==
    [][\A id \in RequestIds :
          (ProgressHandler([id |-> id]).status = 200
             /\ (ProgressHandler([id |-> id]).status = 200)')
          => LET before == ProgressHandler([id |-> id]).body
                 after == (ProgressHandler([id |-> id]).body)'
             IN  /\ after.total = before.total
                 /\ after.downloaded >= before.downloaded
                 /\ after.failed >= before.failed
                 /\ IsPrefix(before.errors, after.errors)
                 /\ IsPrefix(before.files, after.files)
                 /\ before.isComplete => after.isComplete
      ]_vars
\* The file names the tasks that ran under the identifier have written so far.
WrittenUnder(id) ==
    UNION {{mediaItems[t][k].filename : k \in Succeeded(t)} :
             t \in {u \in Tasks : progressId[u] = id}}

ReadOnlyStep(A) == A => UNCHANGED <<downloadProgress, downloadDirs, dirs, files>>

Called == call # NoCall

\* A video is an item typed VIDEO or one whose MIME type is a video type.
CallIsVideo == call.mediaType = "VIDEO" \/ call.mimeType = <<"video", "mp4">>

CallHasOptions == call.settings # NoSettings

\* C17: the locator a call returns is base=d for an image and base=dv for a
\* video when no options are given; with options, base=w1280-h720 for a video
\* at thumbnail quality, followed by -no exactly when overlay removal is set,
\* base=dv for a video at any other quality, and base=d for an image at
\* original quality; and a call with the arguments of the call before returns
\* the locator of the call before.
C17_LocatorRule ==
    /\ [](Called =>
            /\ (~CallHasOptions /\ ~CallIsVideo) => locator = call.baseUrl \o "=d"
            /\ (~CallHasOptions /\ CallIsVideo) => locator = call.baseUrl \o "=dv"
            /\ (CallHasOptions /\ CallIsVideo /\ call.settings.videoQuality = "thumbnail")
               => locator = IF call.settings.videoRemoveOverlay
                            THEN call.baseUrl \o "=w1280-h720-no"
                            ELSE call.baseUrl \o "=w1280-h720"
            /\ (CallHasOptions /\ CallIsVideo /\ call.settings.videoQuality # "thumbnail")
               => locator = call.baseUrl \o "=dv"
            /\ (CallHasOptions /\ ~CallIsVideo /\ call.settings.imageQuality = "original")
               => locator = call.baseUrl \o "=d")
    /\ [][call' = call => locator' = locator]_vars

\* A video typed PHOTO by the picker, at thumbnail quality with overlay removal.
C17_Witness ==
    /\ Called
    /\ call.mediaType = "PHOTO"
    /\ call.mimeType = <<"video", "mp4">>
    /\ CallHasOptions
    /\ call.settings.videoQuality = "thumbnail"
    /\ call.settings.videoRemoveOverlay
    /\ locator = "https://lh3/x=w1280-h720-no"

\* The sizes the claim names for a call: the explicit ones, or the table's.
ClaimedSize(settings, explicit) ==
    IF Has(settings, "imageMaxWidth") /\ Has(settings, "imageMaxHeight")
    THEN settings[explicit]
    ELSE CASE settings.imageQuality = "high" -> 2048
           [] settings.imageQuality = "medium" -> 1024
           [] settings.imageQuality = "low" -> 512

\* C18: for an image at a quality other than original, the locator is
\* base=w{W}-h{H} with W and H the explicit maximum width and height when the
\* options carry both and the table value of the quality otherwise, followed by
\* -c exactly when the crop flag is set.
C18_ImageSizeRule ==
    (Called /\ CallHasOptions /\ ~CallIsVideo /\ call.settings.imageQuality # "original")
    => locator = call.baseUrl \o "=w"
                   \o ToString(ClaimedSize(call.settings, "imageMaxWidth")) \o "-h"
                   \o ToString(ClaimedSize(call.settings, "imageMaxHeight"))
                   \o (IF call.settings.imageCrop THEN "-c" ELSE "")

\* A photo at medium quality, cropped, with only one of the two explicit sizes:
\* the table's square is used.
C18_Witness ==
    /\ Called
    /\ ~CallIsVideo
    /\ CallHasOptions
    /\ call.settings.imageQuality = "medium"
    /\ call.settings.imageCrop
    /\ Has(call.settings, "imageMaxWidth")
    /\ ~Has(call.settings, "imageMaxHeight")
    /\ locator = "https://lh3/x=w1024-h1024-c"
\* What the session of task u has in the maps and on disk.
SessionView(u) ==
    LET id == progressId[u]
    IN  [record |-> IF id \in DOMAIN downloadProgress
                    THEN <<Deref(downloadProgress[id])>> ELSE <<>>,
         entry |-> IF id \in DOMAIN downloadDirs THEN <<downloadDirs[id]>> ELSE <<>>,
         directory |-> TempDirOf(id) \in dirs,
         staged |-> [path \in {q \in DOMAIN files : IsPrefix(TempDirOf(id), q)} |-> files[path]]]

TaskStep(t) == (\E result \in FetchResults : FetchReturn(t, result)) \/ DelayElapsed(t)

\* C19: a step of the background task of one session, and a cleanup of one
\* session, leave the progress record, the staging entry, the staging
\* directory and the staged files of every other started session as they were.
C19_SessionsIndependent ==
    [][\A t \in Tasks : \A u \in Tasks \ {t} :
          (Started(t) /\ Started(u)
             /\ (TaskStep(t) \/ \E rmThrows \in BOOLEAN : Cleanup(progressId[t], rmThrows)))
          => SessionView(u)' = SessionView(u)
      ]_vars
\* A file request of the client is sent and its response has not arrived.
Outstanding(c) == callbacks[c].pc \in {"file requested", "file served"}

\* C20: no step removes the staging area of the client's session while a file
\* request of one of the client's callbacks is outstanding.
C20_NoRemovalWhileFetching ==
    [][\A c \in Callbacks :
          (Outstanding(c) /\ Outstanding(c)' /\ HasStagingArea(clientId))
          => HasStagingArea(clientId)'
      ]_vars
\* Item k of task t has its data, and its file name was in the target directory
\* when the batch started or was written by an earlier item of the batch.
AlreadyThere(t, k) ==
    /\ ~IsMissingData(mediaItems[t][k])
    /\ \/ mediaItems[t][k].filename \in presentAtStart[t]
       \/ \E j \in 1..(k - 1) :
              /\ outcome[t][j].kind = "ok"
              /\ mediaItems[t][j].filename = mediaItems[t][k].filename

Skipped(t) == {k \in Items(t) : outcome[t][k].kind = "skipped"}

\* C21: in server.ts, an item whose file name was in the target directory when
\* the batch started, or was downloaded earlier in the batch, is never being
\* fetched and, once passed, is recorded as skipped; and skipped, downloaded
\* and failed count the items so recorded.
C21_ExistingFilesSkipped ==
    \A t \in Tasks :
        /\ \A k \in Items(t) :
               AlreadyThere(t, k)
               => /\ ~(pc[t] = "fetch" /\ i[t] = k)
                  /\ outcome[t][k].kind \in {"none", "skipped"}
        /\ Started(t) /\ pc[t] \notin Rejected
           => /\ progress[t].skipped = Cardinality(Skipped(t))
              /\ progress[t].downloaded = Cardinality(Succeeded(t))
              /\ progress[t].failed = Cardinality(NotSucceeded(t))
\* The items of t whose remote fetch has been started and has not settled.
InFlight(t) == IF pc[t] = "fetch" THEN {i[t]} ELSE {}

\* The items of t whose remote fetch has been started.
FetchStarted(t) == InFlight(t) \cup {k \in Items(t) : outcome[t][k].kind \in {"ok", "failed"}}

\* C22: a task has at most one fetch in flight; while the fetch of item j is
\* in flight the outcome of every item before j is recorded and no item behind
\* j has been touched; and with no fetch in flight every item whose fetch was
\* started has its outcome.
C22_OneFetchInOrder ==
    \A t \in Tasks :
        /\ Cardinality(InFlight(t)) <= 1
        /\ \A j \in InFlight(t) :
               /\ j \in Items(t)
               /\ outcome[t][j].kind = "none"
               /\ \A k \in 1..(j - 1) : outcome[t][k].kind # "none"
               /\ \A k \in (j + 1)..Len(mediaItems[t]) : outcome[t][k].kind = "none"
        /\ \A j \in FetchStarted(t) : \A k \in 1..(j - 1) : outcome[t][k].kind # "none"

\* The fetch of the third item of the mixed batch is in flight: the first item
\* was fetched, the second was recorded as missing its data.
C22_Witness ==
    \E t \in Tasks :
        /\ mediaItems[t] = MixedBatch
        /\ InFlight(t) = {3}
        /\ outcome[t][1].kind = "ok"
        /\ outcome[t][2].kind = "missing"
\* C23: a fetch is started only for an item without outcome, so each item is
\* fetched at most once; an item whose fetch failed keeps that outcome and is
\* never the item being fetched again.
C23_SingleAttempt ==
    [][\A t \in Tasks : \A k \in Items(t) :
          /\ (k \in InFlight(t)' /\ k \notin InFlight(t)) => outcome[t][k].kind = "none"
          /\ outcome[t][k].kind \in {"ok", "failed"}
             => /\ outcome'[t][k] = outcome[t][k]
                /\ k \notin InFlight(t)'
      ]_vars

\* The first item's fetch failed and the task is fetching the second item.
C23_Witness ==
    \E t \in Tasks :
        /\ Len(mediaItems[t]) = 2
        /\ outcome[t][1].kind = "failed"
        /\ InFlight(t) = {2}
MissingItems(t) == {k \in Items(t) : IsMissingData(mediaItems[t][k])}

IndexMessage(k) == <<"Item", k, "Missing filename or baseUrl">>

Occurrences(list, x) == Cardinality({n \in 1..Len(list) : list[n] = x})

\* C24: an item without filename or baseUrl is never being fetched and never
\* gets the outcome of a fetch; once the loop has passed it, errors holds its
\* index-based message exactly once and the loop stands behind it; failed
\* counts it with the failed fetches, downloaded and the completed files count
\* the fetched items only; and every file on disk is the file of a fetched item.
C24_MissingDataItem ==
    /\ \A t \in Tasks :
           /\ \A k \in MissingItems(t) :
                  /\ k \notin FetchStarted(t)
                  /\ outcome[t][k].kind \in {"none", "missing"}
                  /\ outcome[t][k].kind = "missing"
                     => /\ Occurrences(progress[t].errors, IndexMessage(k)) = 1
                        /\ i[t] > k
                  /\ outcome[t][k].kind = "none"
                     => Occurrences(progress[t].errors, IndexMessage(k)) = 0
           /\ progress[t].failed =
                  Cardinality({k \in Items(t) : outcome[t][k].kind \in {"missing", "failed"}})
           /\ progress[t].downloaded = Cardinality(Succeeded(t))
           /\ Len(progress[t].files) = Cardinality(Succeeded(t))
    /\ DOMAIN files \subseteq
           UNION {{join(TempDirOf(progressId[t]), mediaItems[t][k].filename) :
                     k \in Succeeded(t)} : t \in Tasks}

\* A batch whose first item has no filename and whose second item was fetched
\* and staged.
C24_Witness ==
    \E t \in Tasks :
        /\ Len(mediaItems[t]) = 2
        /\ mediaItems[t][1].filename = Missing
        /\ outcome[t][1].kind = "missing"
        /\ outcome[t][2].kind = "ok"
        /\ progress[t].failed = 1
        /\ progress[t].downloaded = 1
        /\ Cardinality(DOMAIN files) = 1
\* The step starts the fetch of an item of task t.
StartsFetch(t) == \E k \in InFlight(t)' : k \notin InFlight(t)

\* The step settles the fetch task t has in flight.
SettlesFetch(t) == \E k \in InFlight(t) : outcome'[t][k].kind \in {"ok", "failed"}

\* C25: between two consecutive fetch attempts of one run the delay elapses: a
\* step that settles a fetch starts none and leaves the run waiting for the
\* timer, and a run that has made a fetch attempt starts its next fetch only in
\* the step in which that timer fires, whatever items without data lie between.
C25_DelayBetweenFetches ==
    [][\A t \in Tasks :
          /\ SettlesFetch(t) => pc'[t] = "delay" /\ ~StartsFetch(t)
          /\ (StartsFetch(t) /\ FetchStarted(t) # {})
             => /\ pc[t] = "delay"
                /\ \A k \in InFlight(t)' : k > i[t]]_vars

\* The fetch of the third item is in flight after the fetch of the first one
\* failed and the second item was recorded as lacking data.
C25_Witness ==
    \E t \in Tasks :
        /\ mediaItems[t] = MixedBatch
        /\ InFlight(t) = {3}
        /\ outcome[t][1].kind = "failed"
        /\ outcome[t][2].kind = "missing"
\* C26: every record a poll can be answered with that has isComplete = TRUE has
\* currentFile = null.
C26_CompleteHasNoCurrentFile ==
    \A id \in DOMAIN downloadProgress :
        ProgressHandler([id |-> id]).body.isComplete
        => ProgressHandler([id |-> id]).body.currentFile = Null

\* A poll is answered with a complete record of a batch whose last item was
\* fetched, so that currentFile was a filename until the final step.
C26_Witness ==
    \E t \in Tasks :
        /\ Stored(t)
        /\ StoredRecord(t).isComplete
        /\ StoredRecord(t).currentFile = Null
        /\ Len(mediaItems[t]) >= 1
        /\ outcome[t][Len(mediaItems[t])].kind \in {"ok", "failed"}

\* C27: every record a poll can be answered with has a currentFile other than
\* null only while the run that stored it has the fetch of the item with that
\* filename in flight.
C27_CurrentFileOnlyInFlight ==
    \A id \in DOMAIN downloadProgress :
        LET rec == ProgressHandler([id |-> id]).body
            t == downloadProgress[id].owner
        IN  rec.currentFile # Null
            => /\ pc[t] = "fetch"
               /\ mediaItems[t][i[t]].filename = rec.currentFile
\* The step takes away something of session id: its progress entry, its staging
\* entry, its staging directory or a file staged in it.
Removes(id) ==
    \/ id \in DOMAIN downloadProgress /\ id \notin DOMAIN downloadProgress'
    \/ id \in DOMAIN downloadDirs /\ id \notin DOMAIN downloadDirs'
    \/ TempDirOf(id) \in dirs /\ TempDirOf(id) \notin dirs'
    \/ \E path \in DOMAIN files : IsPrefix(TempDirOf(id), path) /\ path \notin DOMAIN files'

\* C28: a step that removes the progress entry or anything of the staging area
\* of a session is a cleanup request for that session; and a batch whose
\* session no cleanup has removed has its staging entry and directory from its
\* start, and its progress entry from the first store on, also when complete.
C28_RemovedOnlyByCleanup ==
    /\ [](\A t \in Tasks :
            (pc[t] \in {"fetch", "delay", "done", "length threw"}
             /\ progressId[t] \notin cleanedUp)
            => /\ HasStagingArea(progressId[t])
               /\ pc[t] # "length threw" => progressId[t] \in DOMAIN downloadProgress)
    /\ [][\A id \in Ids :
             Removes(id) => \E rmThrows \in BOOLEAN : Cleanup(id, rmThrows)]_vars

\* One session was removed by its cleanup while the other, complete with a
\* staged file, is still in both maps and on disk.
C28_Witness ==
    \E t, u \in Tasks :
        /\ progressId[u] \in cleanedUp
        /\ progressId[u] \notin DOMAIN downloadProgress
        /\ progressId[t] \notin cleanedUp
        /\ pc[t] = "done"
        /\ Succeeded(t) # {}
        /\ Stored(t)
        /\ StoredRecord(t).isComplete
        /\ HasStagingArea(progressId[t])
\* The batch of t is running and a cleanup has removed its session.
CleanedWhileRunning(t) ==
    /\ pc[t] \in {"fetch", "delay"}
    /\ progressId[t] \in cleanedUp
    /\ progressId[t] \notin DOMAIN downloadDirs

\* The run of t went through every item and its final step.
RanToEnd(t) ==
    /\ pc[t] = "done"
    /\ \A k \in Items(t) : outcome[t][k].kind # "none"
    /\ progress[t].isComplete

\* C29: a step that removes a session leaves every run where it is, the fetch
\* in flight included, with its items, counters and outcomes; and a batch whose
\* session is cleaned up while it runs goes on to an outcome for every item and
\* to the final step that sets isComplete.
C29_CleanupDoesNotCancel ==
    /\ [][(\E id \in Ids : Removes(id))
          => /\ pc' = pc
             /\ i' = i
             /\ mediaItems' = mediaItems
             /\ outcome' = outcome
             /\ progress' = progress]_vars
    /\ \A t \in Tasks : CleanedWhileRunning(t) ~> RanToEnd(t)

\* The session was cleaned up after the first item was staged: the second item
\* was still fetched, its write into the removed directory failed, and the
\* final step was reached.
C29_Witness ==
    \E t \in Tasks :
        /\ progressId[t] \in cleanedUp
        /\ Len(mediaItems[t]) = 2
        /\ outcome[t][1].kind = "ok"
        /\ outcome[t][2] = [kind |-> "failed", error |-> "Error: ENOENT"]
        /\ RanToEnd(t)
\* C30: a cleanup of a session with a staging directory whose rmSync throws is
\* answered 500 and returns both maps as they are; the step it makes changes
\* neither map and no run, and leaves nothing behind that removes the session
\* later: whatever is removed in a later step is removed by a cleanup request.
C30_FailedRemovalKeepsEntries ==
    /\ [](\A id \in Ids :
            HasStagingArea(id)
            => /\ CleanupOf(id, TRUE).status = 500
               /\ CleanupOf(id, TRUE).body = "Cleanup failed"
               /\ CleanupOf(id, TRUE).downloadProgress = downloadProgress
               /\ CleanupOf(id, TRUE).downloadDirs = downloadDirs)
    /\ [][\A id \in Ids :
             (HasStagingArea(id) /\ Cleanup(id, TRUE))
             => /\ downloadProgress' = downloadProgress
                /\ downloadDirs' = downloadDirs
                /\ cleanedUp' = cleanedUp
                /\ pc' = pc
                /\ HasStagingArea(id)']_vars
    /\ [][\A id \in Ids :
             (id \in DOMAIN downloadDirs /\ id \notin DOMAIN downloadDirs')
             => Cleanup(id, FALSE)]_vars

\* A complete session with a staged file that no cleanup has removed: a cleanup
\* whose removal fails is answered 500 here.
C30_Witness ==
    \E t \in Tasks :
        /\ pc[t] = "done"
        /\ Succeeded(t) # {}
        /\ Stored(t)
        /\ HasStagingArea(progressId[t])
        /\ CleanupOf(progressId[t], TRUE).status = 500
        /\ CleanupOf(progressId[t], TRUE).downloadProgress = downloadProgress
        /\ progressId[t] \in DOMAIN CleanupOf(progressId[t], TRUE).downloadDirs
\* C31: a file of a staging area that is on disk before and after a step has
\* the same bytes after the step as before it.
C31_StagedFileNeverRewritten ==
    [][\A path \in DOMAIN files \cap DOMAIN files' : files'[path] = files[path]]_vars
\* C33: a session id a cleanup has removed from the progress map is not put
\* back into it by any later step, so that a poll for it stays not-found, and
\* every id with a progress entry has a staging-directory entry.
C33_RemovedStaysRemoved ==
    /\ [](\A id \in DOMAIN downloadProgress : id \in DOMAIN downloadDirs)
    /\ [][\A id \in cleanedUp :
             ProgressHandler([id |-> id]).status = 404
             => ProgressHandler([id |-> id])'.status = 404]_vars
\* A run of pollProgressAndSave has sent its cleanup request, which the relay
\* has not handled yet.
CleanupSent(c) == callbacks[c].pc = "cleanup requested"

\* C32: a run of the poll callback that has sent the cleanup request took a
\* poll response with isComplete = true, and it has sent a file request for
\* every position of the files list of that response whose name was not among
\* the saved files it knew; and the step that sends the request is the step of
\* such a run that takes the poll response or the last file response.
C32_CleanupAfterCompleteAndSaving ==
    /\ [](\A c \in Callbacks :
            CleanupSent(c)
            => /\ callbacks[c].isComplete
               /\ \A n \in 1..Len(callbacks[c].names) :
                      callbacks[c].names[n] \notin callbacks[c].saved
                      => n \in callbacks[c].tried)
    /\ [][\A c \in Callbacks :
             (CleanupSent(c)' /\ ~CleanupSent(c))
             => \/ /\ callbacks[c].pc = "polling"
                   /\ ProgressHandler([id |-> clientId]).status = 200
                   /\ ProgressHandler([id |-> clientId]).body.isComplete
                \/ /\ callbacks[c].pc = "file served"
                   /\ callbacks[c].isComplete]_vars

\* The cleanup request is sent after a complete record with a file the run did
\* not know as saved, for which it has sent the file request.
C32_Witness ==
    \E c \in Callbacks :
        /\ CleanupSent(c)
        /\ callbacks[c].tried # {}
        /\ \E n \in callbacks[c].tried : callbacks[c].names[n] \in savedFiles

\* C34: when a run of the poll callback has sent the cleanup request, every
\* file of the files list of the record it took is in the user's directory.
C34_AllSavedBeforeCleanup ==
    \A c \in Callbacks :
        CleanupSent(c)
        => \A n \in 1..Len(callbacks[c].names) : callbacks[c].names[n] \in savedFiles
\* C35: a file request that is answered with a file reads it from inside the
\* staging directory of the session it names, and every file a batch has
\* written lies inside the staging directory of that batch, for plain file
\* names and for names with parent-directory components.
C35_StagingContainment ==
    /\ \A q \in TraversalQueries :
           (q.progressId \in DOMAIN downloadDirs /\ FileHandler(q).status = 200)
           => IsPrefix(downloadDirs[q.progressId], join(downloadDirs[q.progressId], q.filename))
    /\ \A t \in Tasks : \A k \in Succeeded(t) :
           IsPrefix(TempDirOf(progressId[t]),
                    join(TempDirOf(progressId[t]), mediaItems[t][k].filename))
\* C36: a run of handleSelectPhotos the user cancelled never calls
\* onPhotosSelected, and when its wait in pollSession ends, where the
\* cancellation is checked next, the run ends.
C36_CancelledRunStops ==
    /\ [](cancelledRuns \cap handed = {})
    /\ [][\A r \in cancelledRuns :
             (selection[r].pc = "waiting" /\ selection'[r].pc # "waiting")
             => selection'[r].pc = "ended"]_vars
====
